---- MODULE Spec2Model ----
(***************************************************************************)
(* Model of the sponsor endpoint of octane                                 *)
(* (packages/server/pages/api/sponsor.ts).                                 *)
(*                                                                         *)
(* Each request is one run of the default handler.  A request yields to    *)
(* the other requests at every await; the model has one action per         *)
(* resumption that matters to the shared state or to the order of the      *)
(* handler's calls:                                                        *)
(*   Receive              lines 21-48  (decode, cache.get is read)         *)
(*   CacheSet             lines 50-68 / 50-150 (cache.set, fee payer,      *)
(*                        blockhash presence, isBlockhashValid is called)  *)
(*   IsBlockhashValid     lines 68-102 / 150-200 (signature checks; the    *)
(*                        versioned branch signs and calls the simulation) *)
(*   ValidateInstructions lines 102-109 (legacy only: sign, serialize)     *)
(*   Simulate             lines 109-125 / 200-220                          *)
(*   IsReturnedSignatureAllowed lines 114-122 / 209-217                    *)
(*   SendAndConfirm       lines 125-131 / 220-226                          *)
(* and Expire, the passive expiry of a lock entry of the cache.            *)
(*                                                                         *)
(* The health endpoint (pages/api/health) is a second handler, with the    *)
(* actions HealthReceive and GetBlockHeight; HealthSpec runs it.           *)
(***************************************************************************)
EXTENDS Naturals, Sequences, FiniteSets

\* Number of requests the server receives in one behaviour.
NReq == 2

\* Largest required-signature count a received transaction declares.
MaxN == 3

Requests == 1..NReq

\* Number of requests the health endpoint receives in one behaviour.
NHealth == 2

HealthRequests == 1..NHealth

\* cache   the keys of the live lock entries of the duplicate cache
\* window  for each key, the number of the TTL window it is in: it grows by
\*         one each time the entry of the key expires
\* config  config.json, read once
\* health  for each request of the health endpoint: where its handler is
\*         suspended (pc), the timestamp it took, the answer of the ledger
\*         and the responses it sent
\* req     for each request: where its handler is suspended (pc), the body it
\*         carried, the signature slots of its transaction, the calls it made
\*         with their answers (log), the window it read its key as free in
\*         (admitted, 0 when it did not), and the response it sent
VARIABLES cache, window, config, req, health

vars == <<cache, window, config, req, health>>

----------------------------------------------------------------------------
\* Process-wide values

\* ENV_SECRET_KEYPAIR.publicKey, the custodial identity.
ENV_SECRET_KEYPAIR == "octane"

\* Account keys a message may name at index 0.
PublicKeys == {ENV_SECRET_KEYPAIR, "other"}

\* config.json: maxSignatures and returnSignature (null, allowAll, reCaptcha).
Configs ==
    [maxSignatures : {2, 3}, returnSignature : {"null", "allowAll", "reCaptcha"}]

\* A signature slot on the wire: 64 zero bytes, or anything else.
Slots == {"zero", "sig"}

\* The slot the custodial key writes when it signs.
OctaneSignature == "octaneSig"

SlotSeqs(n) == [1..n -> Slots]

\* Wire versions told apart by VersionedTransaction.deserialize.
Versions == {"legacy", "v0"}

\* Decoded transactions.  deserialize asserts that the number of signature
\* slots equals header.numRequiredSignatures, so the slots have length n.
Transactions ==
    UNION { [kind : {"tx"}, version : Versions, accountKey0 : PublicKeys,
             numRequiredSignatures : {n}, signatures : SlotSeqs(n)]
            : n \in 0..MaxN }

\* Request bodies that never become a transaction: no string transaction,
\* a string that is not base58, bytes deserialize rejects.
BadBody(k) ==
    [kind |-> k, version |-> "legacy", accountKey0 |-> "other",
     numRequiredSignatures |-> 0, signatures |-> <<>>]

Bodies == Transactions \cup {BadBody("notString"), BadBody("notBase58"),
                             BadBody("undecodable")}

\* The bytes of the full wire payload, signature slots included, in place of
\* the bytes of the message.
MessageBytes_WithSignatures(tx) ==
    <<tx.version, tx.numRequiredSignatures, tx.accountKey0, tx.signatures>>

\* versionedTransaction.message.serialize(): the bytes of the message, which
\* hold the version prefix, the header and the account keys, not the slots.
MessageBytes(tx) ==
    <<tx.version, tx.numRequiredSignatures, tx.accountKey0>>

\* `transaction/${base58.encode(sha256(messageBytes))}`
Key(tx) == <<"transaction", MessageBytes(tx)>>

Keys == { Key(tx) : tx \in Transactions }

----------------------------------------------------------------------------
\* Responses

NoResponse == [code |-> 0, status |-> "none", text |-> "none"]

\* An error body sent without response.status(400): the code stays 200.
ErrorResponse_Code200(message) ==
    [code |-> 200, status |-> "error", text |-> message]

\* response.status(400).send({ status: 'error', message })
ErrorResponse(message) == [code |-> 400, status |-> "error", text |-> message]

\* response.status(200).send({ status: 'ok', signature })
OkResponse(signature) == [code |-> 200, status |-> "ok", text |-> signature]

Idle ==
    [pc |-> "idle", body |-> BadBody("notString"), signatures |-> <<>>,
     log |-> <<>>, admitted |-> 0, response |-> NoResponse]

----------------------------------------------------------------------------
\* The health endpoint's values

\* ENV_FEE_PAYER.toBase58()
ENV_FEE_PAYER == "feePayer"

\* new Date().toISOString() at the start of the handler.
Timestamps == {"t1", "t2", "t3"}

\* What `await connection.getBlockHeight()` does: it returns a height, throws
\* an Error with a message, or throws a value that is not an Error.
BlockHeightAnswers ==
    [kind : {"height"}, value : {100, 101}]
        \cup [kind : {"throws"}, value : {"Error", "other"}]

NoAnswer == [kind |-> "none", value |-> "none"]

HealthIdle ==
    [pc |-> "idle", timestamp |-> "none", answer |-> NoAnswer,
     responses |-> <<>>]

----------------------------------------------------------------------------
Init ==
    /\ cache = {}
    /\ window = [k \in Keys |-> 1]
    /\ config \in Configs
    /\ req = [r \in Requests |-> Idle]
    /\ health = [h \in HealthRequests |-> HealthIdle]

\* Line 38: the message sent when VersionedTransaction.deserialize throws,
\* the library's error.message or, for a thrown value that is not an Error,
\* the fixed text.
DeserializeMessages == {"deserialize error", "can't decode transaction"}

\* error.message of an error thrown by a collaborator's call (the ledger
\* client, the network): the text is the library's, the handler forwards it
\* (lines 229-232).
RpcError == "rpc error"

\* The catch block with the message of the error never read.
Catch_MessageDropped(r, message, calls) ==
    req' = [req EXCEPT ![r].pc = "done",
                       ![r].log = req[r].log \o calls,
                       ![r].response = ErrorResponse("")]

\* The catch block sending nothing and handing the request back to the
\* call that failed.
Catch_Reenter(r, message, calls) ==
    req' = [req EXCEPT ![r].log = req[r].log \o calls]

\* The catch block of lines 228-234 and the end of the handler.
Catch(r, message, calls) ==
    req' = [req EXCEPT ![r].pc = "done",
                       ![r].log = req[r].log \o calls,
                       ![r].response = ErrorResponse(message)]

\* The duplicate check answering that every key is locked.
AlreadyLocked_Always(key, entries) == TRUE

\* The duplicate check with its answer ignored.
AlreadyLocked_Never(key, entries) == FALSE

\* Line 47: what `await cache.get(key)` answers, given the live entries.
AlreadyLocked(key, entries) == key \in entries

\* The deserialization never throwing.
Deserializes_Always(body) == TRUE

\* Lines 34-41: whether VersionedTransaction.deserialize returns a
\* transaction for the bytes of the body.
Deserializes(body) == body.kind = "tx"

\* Lines 21-48: the request is decoded and the duplicate cache is read.
\* Requests are numbered in the order the server receives them.
Receive(r) ==
    /\ req[r].pc = "idle"
    /\ \A q \in Requests : q < r => req[q].pc # "idle"
    /\ \E body \in Bodies :
        /\ UNCHANGED <<cache, window, config, health>>
        /\ IF body.kind = "notString"
             THEN req' = [req EXCEPT ![r].pc = "done", ![r].body = body,
                            ![r].response =
                                ErrorResponse("request should contain transaction")]
           ELSE IF body.kind = "notBase58"
             \* base58.decode throws outside of any try block
             THEN req' = [req EXCEPT ![r].pc = "unhandled", ![r].body = body]
           ELSE IF ~Deserializes(body)
             THEN \E message \in DeserializeMessages :
                    req' = [req EXCEPT ![r].pc = "done", ![r].body = body,
                                ![r].response = ErrorResponse(message)]
           ELSE IF AlreadyLocked(Key(body), cache)
             THEN req' = [req EXCEPT ![r].pc = "done", ![r].body = body,
                            ![r].signatures = body.signatures,
                            ![r].log = <<<<"cache.get", "locked">>>>,
                            ![r].response = ErrorResponse("duplicate transaction")]
           ELSE req' = [req EXCEPT ![r].pc = "cache.get", ![r].body = body,
                            ![r].signatures = body.signatures,
                            ![r].admitted = window[Key(body)],
                            ![r].log = <<<<"cache.get", "free">>>>]

\* Transaction.from(buffer), line 55: the legacy view of the decoded bytes.
\* feePayer is accountKeys[0] when the header requires a signature and is
\* undefined otherwise; a slot of 64 zero bytes becomes a null signature.
LegacyTx(tx) ==
    [feePayer |-> IF tx.numRequiredSignatures > 0 THEN tx.accountKey0
                  ELSE "undefined",
     recentBlockhash |-> "blockhash",
     signatures |->
        [i \in 1..Len(tx.signatures) |->
            [publicKey |-> IF i = 1 THEN tx.accountKey0 ELSE "user",
             signature |-> IF tx.signatures[i] = "zero" THEN "null"
                           ELSE tx.signatures[i]]]]

\* Lines 57-65: the legacy checks made before isBlockhashValid is called.
LegacyFeePayerChecks(legacyTx) ==
    IF legacyTx.feePayer # ENV_SECRET_KEYPAIR THEN "invalid fee payer"
    ELSE IF legacyTx.recentBlockhash = "" THEN "missing recent blockhash"
    ELSE "ok"

\* The legacy signature checks without the test against maxSignatures of
\* lines 77-79.
LegacySignatureChecks_NoUpperBound(legacyTx, cfg) ==
    LET sigs == legacyTx.signatures
        secondary == 2..Len(sigs)
        allUnsigned == \A i \in secondary : sigs[i].signature = "null"
    IN  IF Len(sigs) = 0 THEN "no signatures"
        ELSE IF sigs[1].publicKey # ENV_SECRET_KEYPAIR
            THEN "invalid fee payer pubkey"
        ELSE IF sigs[1].signature # "null" THEN "invalid fee payer signature"
        ELSE IF ~allUnsigned /\ \E i \in secondary : sigs[i].signature = "null"
            THEN "missing signature"
        ELSE "ok"

\* Lines 73-99: the legacy signature checks.
LegacySignatureChecks(legacyTx, cfg) ==
    LET sigs == legacyTx.signatures
        secondary == 2..Len(sigs)
        allUnsigned == \A i \in secondary : sigs[i].signature = "null"
    IN  IF Len(sigs) = 0 THEN "no signatures"
        ELSE IF Len(sigs) > cfg.maxSignatures THEN "too many signatures"
        ELSE IF sigs[1].publicKey # ENV_SECRET_KEYPAIR
            THEN "invalid fee payer pubkey"
        ELSE IF sigs[1].signature # "null" THEN "invalid fee payer signature"
        ELSE IF ~allUnsigned /\ \E i \in secondary : sigs[i].signature = "null"
            THEN "missing signature"
        ELSE "ok"

\* The versioned branch without its fee payer check.
V0FeePayerChecks_Skipped(tx) == "ok"

\* Lines 138-147: the versioned checks made before isBlockhashValid is called.
V0FeePayerChecks(tx) ==
    IF tx.accountKey0 # ENV_SECRET_KEYPAIR THEN "invalid fee payer"
    ELSE "ok"

\* The versioned signature checks without the loop over the secondary slots
\* of lines 183-192.
V0SignatureChecks_NoSecondaryLoop(tx, cfg) ==
    LET n == tx.numRequiredSignatures
        sigs == tx.signatures
    IN  IF n > cfg.maxSignatures THEN "too many signatures"
        ELSE IF Len(sigs) # n THEN "signature count mismatch"
        ELSE IF Len(sigs) = 0
            THEN "Cannot read properties of undefined (reading 'every')"
        ELSE IF n = 1 THEN "ok"
        ELSE IF sigs[1] # "zero" THEN "invalid fee payer signature"
        ELSE "ok"

\* The versioned signature checks without the test of the fee payer's slot
\* of lines 173-175.
V0SignatureChecks_NoFeePayerSlotCheck(tx, cfg) ==
    LET n == tx.numRequiredSignatures
        sigs == tx.signatures
        allUnsigned == \A i \in 2..Len(sigs) : sigs[i] = "zero"
    IN  IF n > cfg.maxSignatures THEN "too many signatures"
        ELSE IF Len(sigs) # n THEN "signature count mismatch"
        ELSE IF Len(sigs) = 0
            THEN "Cannot read properties of undefined (reading 'every')"
        ELSE IF n = 1 THEN "ok"
        ELSE IF ~allUnsigned /\ \E i \in 2..Len(sigs) : sigs[i] = "zero"
            THEN "missing required signature"
        ELSE "ok"

\* Lines 156-193: the versioned signature checks.  With no slot at all,
\* firstSig is undefined and firstSig.every raises a TypeError.
V0SignatureChecks(tx, cfg) ==
    LET n == tx.numRequiredSignatures
        sigs == tx.signatures
        allUnsigned == \A i \in 2..Len(sigs) : sigs[i] = "zero"
    IN  IF n > cfg.maxSignatures THEN "too many signatures"
        ELSE IF Len(sigs) # n THEN "signature count mismatch"
        ELSE IF Len(sigs) = 0
            THEN "Cannot read properties of undefined (reading 'every')"
        ELSE IF n = 1 THEN "ok"
        ELSE IF sigs[1] # "zero" THEN "invalid fee payer signature"
        ELSE IF ~allUnsigned /\ \E i \in 2..Len(sigs) : sigs[i] = "zero"
            THEN "missing required signature"
        ELSE "ok"

\* legacyTx.partialSign / versionedTransaction.sign: the custodial key
\* writes the fee payer's slot, the other slots are left as they are.
Sign(sigs) == [sigs EXCEPT ![1] = OctaneSignature]

\* The identifier answered: base58 of the fee payer's slot (lines 111, 206).
SignatureId(sigs) == sigs[1]

\* The branch on config.returnSignature always taken: nothing is submitted.
AfterSimulation_NeverSubmits(cfg) == "isReturnedSignatureAllowed"

\* The branch on config.returnSignature never taken: always submitted.
AfterSimulation_AlwaysSubmits(cfg) == "sendAndConfirmRawTransaction"

\* After the simulation: the branch on config.returnSignature
\* (lines 113, 208).
AfterSimulation(cfg) ==
    IF cfg.returnSignature # "null" THEN "isReturnedSignatureAllowed"
    ELSE "sendAndConfirmRawTransaction"

\* The lock entry written only once the fee payer and the blockhash have
\* been checked.
CacheSet_LockAfterValidation(r) ==
    /\ req[r].pc = "cache.get"
    /\ UNCHANGED <<window, config, health>>
    /\ LET tx == req[r].body
           check == IF tx.version = "legacy"
                      THEN LegacyFeePayerChecks(LegacyTx(tx))
                      ELSE V0FeePayerChecks(tx)
           calls == <<<<"cache.set", "done">>>>
       IN  IF check # "ok" THEN /\ cache' = cache
                                /\ Catch(r, check, calls)
           ELSE /\ cache' = cache \cup {Key(tx)}
                /\ req' = [req EXCEPT ![r].pc = "isBlockhashValid",
                                      ![r].log = req[r].log \o calls]

\* Line 50 and what follows up to the next await: the lock entry is written,
\* then the fee payer and the blockhash are checked.
CacheSet(r) ==
    /\ req[r].pc = "cache.get"
    /\ cache' = cache \cup {Key(req[r].body)}
    /\ UNCHANGED <<window, config, health>>
    /\ LET tx == req[r].body
           check == IF tx.version = "legacy"
                      THEN LegacyFeePayerChecks(LegacyTx(tx))
                      ELSE V0FeePayerChecks(tx)
           calls == <<<<"cache.set", "done">>>>
       IN  IF check # "ok" THEN Catch(r, check, calls)
           ELSE req' = [req EXCEPT ![r].pc = "isBlockhashValid",
                                   ![r].log = req[r].log \o calls]

\* Lines 68-102 and 150-200: the ledger answers the blockhash query, then the
\* signature checks run; the versioned branch signs and calls the simulation.
IsBlockhashValid(r) ==
    /\ req[r].pc = "isBlockhashValid"
    /\ UNCHANGED <<cache, window, config, health>>
    /\ \E answer \in {"valid", "invalid", "throws"} :
        LET tx == req[r].body
            calls == <<<<"isBlockhashValid", answer>>>>
            check == IF tx.version = "legacy"
                       THEN LegacySignatureChecks(LegacyTx(tx), config)
                       ELSE V0SignatureChecks(tx, config)
        IN  IF answer = "throws" THEN Catch(r, RpcError, calls)
            ELSE IF answer = "invalid"
                THEN Catch(r, "blockhash not found or expired", calls)
            ELSE IF check # "ok" THEN Catch(r, check, calls)
            ELSE IF tx.version = "legacy"
                THEN req' = [req EXCEPT ![r].pc = "validateInstructions",
                                        ![r].log = req[r].log \o calls]
            ELSE req' = [req EXCEPT ![r].pc = "simulate",
                            ![r].signatures = Sign(req[r].signatures),
                            ![r].log = req[r].log \o calls
                                \o <<<<"sign", "done">>, <<"serialize", "ok">>>>]

\* legacyTx.serialize() of line 106 is called with the library's defaults
\* (requireAllSignatures and verifySignatures): it throws when a required
\* slot is still null or when a slot a user populated does not verify
\* against the message.
LegacySerialize(sigs, verified) ==
    IF \E i \in 1..Len(sigs) : sigs[i] = "zero" THEN "throws"
    ELSE IF (\E i \in 1..Len(sigs) : sigs[i] = "sig") /\ ~verified THEN "throws"
    ELSE "ok"

\* Lines 102-109 (legacy): the instruction policy answers, then the
\* transaction is signed and serialized and the simulation is called.
ValidateInstructions(r) ==
    /\ req[r].pc = "validateInstructions"
    /\ UNCHANGED <<cache, window, config, health>>
    /\ \E answer \in {"ok", "throws"}, verified \in BOOLEAN :
        LET calls == <<<<"validateInstructions", answer>>>>
            signed == Sign(req[r].signatures)
            wire == LegacySerialize(signed, verified)
        IN  IF answer = "throws" THEN Catch(r, "program not allowed", calls)
            ELSE IF wire = "throws"
                THEN /\ req' = [req EXCEPT ![r].pc = "done",
                            ![r].signatures = signed,
                            ![r].log = req[r].log \o calls
                                \o <<<<"sign", "done">>, <<"serialize", "throws">>>>,
                            ![r].response =
                                ErrorResponse("Signature verification failed")]
            ELSE req' = [req EXCEPT ![r].pc = "simulate",
                            ![r].signatures = signed,
                            ![r].log = req[r].log \o calls
                                \o <<<<"sign", "done">>, <<"serialize", "ok">>>>]

\* core.simulateRawTransaction of line 109: it returns when the dry run
\* succeeds and throws otherwise.  "ok", or the message of the error thrown.
SimulateRawTransaction(answer) ==
    IF answer = "ok" THEN "ok"
    ELSE IF answer = "err" THEN "simulation failed: err"
    ELSE RpcError

\* The versioned branch without the test of simulation.value.err.
V0Simulation_ErrIgnored(answer) ==
    IF answer = "throws" THEN RpcError ELSE "ok"

\* Lines 200-204: connection.simulateTransaction answers a value whose err
\* field the handler turns into an error, or throws.
V0Simulation(answer) ==
    IF answer = "throws" THEN RpcError
    ELSE IF answer = "err" THEN "simulation failed: err"
    ELSE "ok"

\* "ok" lets the request go on, anything else is the message of its error.
SimulationOutcome(version, answer) ==
    IF version = "legacy" THEN SimulateRawTransaction(answer)
    ELSE V0Simulation(answer)

\* Lines 109-125 and 200-220: the simulation answers.
Simulate(r) ==
    /\ req[r].pc = "simulate"
    /\ UNCHANGED <<cache, window, config, health>>
    /\ \E answer \in {"ok", "err", "throws"} :
        LET calls == <<<<"simulate", answer>>>>
            outcome == SimulationOutcome(req[r].body.version, answer)
        IN  IF outcome # "ok" THEN Catch(r, outcome, calls)
            ELSE req' = [req EXCEPT ![r].pc = AfterSimulation(config),
                                    ![r].log = req[r].log \o calls]

\* isReturnedSignatureAllowed: allowAll lets every request through, reCaptcha
\* asks the scoring service.
ReturnedSignatureAnswers(cfg) ==
    IF cfg.returnSignature = "allowAll" THEN {"allowed"}
    ELSE {"allowed", "denied"}

\* The returnSignature branch with the answer of the check ignored.
ReturnedSignatureResponse_AlwaysOk(answer, sigs) ==
    OkResponse(SignatureId(sigs))

\* Lines 114-122 and 209-217: the response sent on the answer of
\* isReturnedSignatureAllowed.
ReturnedSignatureResponse(answer, sigs) ==
    IF answer = "denied" THEN ErrorResponse("anti-spam check failed")
    ELSE OkResponse(SignatureId(sigs))

\* Lines 114-122 and 209-217: the anti-spam check answers.
IsReturnedSignatureAllowed(r) ==
    /\ req[r].pc = "isReturnedSignatureAllowed"
    /\ UNCHANGED <<cache, window, config, health>>
    /\ \E answer \in ReturnedSignatureAnswers(config) :
        LET calls == <<<<"isReturnedSignatureAllowed", answer>>>>
        IN  req' = [req EXCEPT ![r].pc = "done",
                        ![r].log = req[r].log \o calls,
                        ![r].response =
                            ReturnedSignatureResponse(answer, req[r].signatures)]

\* Lines 125-131 and 220-226: the submission is confirmed or throws.
SendAndConfirm(r) ==
    /\ req[r].pc = "sendAndConfirmRawTransaction"
    /\ UNCHANGED <<cache, window, config, health>>
    /\ \E answer \in {"confirmed", "throws"} :
        LET calls == <<<<"sendAndConfirmRawTransaction", answer>>>>
        IN  IF answer = "throws" THEN Catch(r, RpcError, calls)
            ELSE req' = [req EXCEPT ![r].pc = "done",
                            ![r].log = req[r].log \o calls,
                            ![r].response =
                                OkResponse(SignatureId(req[r].signatures))]

\* The lock entry of a key reaches its TTL and is dropped by the cache.
Expire(k) ==
    /\ k \in cache
    /\ cache' = cache \ {k}
    /\ window' = [window EXCEPT ![k] = window[k] + 1]
    /\ UNCHANGED <<config, req, health>>

Next ==
    \/ \E r \in Requests : Receive(r)
    \/ \E r \in Requests : CacheSet(r)
    \/ \E r \in Requests : IsBlockhashValid(r)
    \/ \E r \in Requests : ValidateInstructions(r)
    \/ \E r \in Requests : Simulate(r)
    \/ \E r \in Requests : IsReturnedSignatureAllowed(r)
    \/ \E r \in Requests : SendAndConfirm(r)
    \/ \E k \in Keys : Expire(k)

Spec == Init /\ [][Next]_vars

\* Every call a handler awaits eventually returns or throws, so a handler
\* suspended at an await is eventually resumed.  The arrival of a request and
\* the expiry of an entry are left to the environment.
Fairness ==
    \A r \in Requests :
        /\ WF_vars(CacheSet(r))
        /\ WF_vars(IsBlockhashValid(r))
        /\ WF_vars(ValidateInstructions(r))
        /\ WF_vars(Simulate(r))
        /\ WF_vars(IsReturnedSignatureAllowed(r))
        /\ WF_vars(SendAndConfirm(r))

FairSpec == Spec /\ Fairness

----------------------------------------------------------------------------
\* The health endpoint

\* The health handler answering 'healthy' whatever the ledger did.
HealthResponse_AlwaysHealthy(answer, timestamp) ==
    [code |-> 200, status |-> "healthy", timestamp |-> timestamp,
     feePayer |-> ENV_FEE_PAYER,
     rpc |-> [connected |-> TRUE, blockheight |-> 0]]

\* Lines 23-43: the response sent on the answer of getBlockHeight.
HealthResponse(answer, timestamp) ==
    IF answer.kind = "height"
      THEN [code |-> 200, status |-> "healthy", timestamp |-> timestamp,
            feePayer |-> ENV_FEE_PAYER,
            rpc |-> [connected |-> TRUE, blockheight |-> answer.value]]
      ELSE [code |-> 503, status |-> "unhealthy", timestamp |-> timestamp,
            feePayer |-> ENV_FEE_PAYER,
            rpc |-> [connected |-> FALSE,
                     error |-> IF answer.value = "Error"
                                 THEN RpcError ELSE "Unknown error"]]

\* Lines 16-21: the handler takes the timestamp and calls getBlockHeight.
HealthReceive(h) ==
    /\ health[h].pc = "idle"
    /\ \A g \in HealthRequests : g < h => health[g].pc # "idle"
    /\ \E timestamp \in Timestamps :
        health' = [health EXCEPT ![h].pc = "getBlockHeight",
                                 ![h].timestamp = timestamp]
    /\ UNCHANGED <<cache, window, config, req>>

\* Lines 21-44: getBlockHeight answers and the response is sent.
GetBlockHeight(h) ==
    /\ health[h].pc = "getBlockHeight"
    /\ \E answer \in BlockHeightAnswers :
        health' = [health EXCEPT
            ![h].pc = "done",
            ![h].answer = answer,
            ![h].responses =
                Append(health[h].responses,
                       HealthResponse(answer, health[h].timestamp))]
    /\ UNCHANGED <<cache, window, config, req>>

HealthNext ==
    \/ \E h \in HealthRequests : HealthReceive(h)
    \/ \E h \in HealthRequests : GetBlockHeight(h)

HealthSpec == Init /\ [][HealthNext]_vars

----------------------------------------------------------------------------
\* What a request has done so far, read from its log and its position

IsTx(r) == req[r].pc # "idle" /\ req[r].body.kind = "tx"

Done(r) == req[r].pc = "done"

\* The call `name` of request r has returned with `answer`.
Has(r, name, answer) ==
    \E i \in 1..Len(req[r].log) : req[r].log[i] = <<name, answer>>

\* The call `name` of request r has been made (it may not have returned).
Called(r, name) ==
    \/ req[r].pc = name
    \/ \E i \in 1..Len(req[r].log) : req[r].log[i][1] = name

\* The position of the call `name` in the log of r, 0 when it is absent.
At(r, name) ==
    IF \E i \in 1..Len(req[r].log) : req[r].log[i][1] = name
      THEN CHOOSE i \in 1..Len(req[r].log) : req[r].log[i][1] = name
      ELSE 0

Signed(r) == Called(r, "sign")

Simulated(r) == Called(r, "simulate")

Submitted(r) == Called(r, "sendAndConfirmRawTransaction")

\* r passed the duplicate check: it read its digest as not locked.
Admitted(r) == Has(r, "cache.get", "free")

NoSideEffect(r) == ~Signed(r) /\ ~Simulated(r) /\ ~Submitted(r)

SameMessage(r1, r2) ==
    /\ IsTx(r1) /\ IsTx(r2)
    /\ MessageBytes(req[r1].body) = MessageBytes(req[r2].body)

\* The secondary slots of a received transaction.
Secondary(tx) == 2..Len(tx.signatures)

Mixed(tx) ==
    /\ \E i \in Secondary(tx) : tx.signatures[i] = "zero"
    /\ \E i \in Secondary(tx) : tx.signatures[i] # "zero"

----------------------------------------------------------------------------
\* C1: among the requests that carry the same message digest, at most one
\* reads the digest as not locked within one TTL window (no two of them pass
\* the duplicate check without an expiry of the lock entry in between), and
\* every request that did not pass is answered 'duplicate transaction'.
C1_AtMostOneWinner ==
    \A r1, r2 \in Requests :
        /\ (r1 # r2 /\ SameMessage(r1, r2) /\ Admitted(r1) /\ Admitted(r2))
              => req[r1].admitted # req[r2].admitted
        /\ (IsTx(r1) /\ ~Admitted(r1))
              => req[r1].response = ErrorResponse("duplicate transaction")

\* r was co-signed and its signature was answered or its submission made.
Sponsored(r) ==
    /\ Signed(r)
    /\ \/ Submitted(r)
       \/ req[r].response.status = "ok"

\* C2: for each message digest at most one request is co-signed and
\* submitted (or answered with a signature) within one TTL window.
C2_AtMostOneSponsorship ==
    \A r1, r2 \in Requests :
        (r1 # r2 /\ SameMessage(r1, r2) /\ Sponsored(r1) /\ Sponsored(r2))
            => req[r1].admitted # req[r2].admitted

\* C3: a request received while the lock entry of an admitted request that
\* completed with status 'ok' is still live, and carrying the same message
\* bytes, is answered 'duplicate transaction' at once: it ends without
\* signing, simulation or submission.
C3_ResubmitIsDuplicate ==
    [][\A r1, r2 \in Requests :
        ( /\ r1 # r2
          /\ req[r2].pc = "idle" /\ req'[r2].pc # "idle"
          /\ req'[r2].body.kind = "tx"
          /\ Done(r1) /\ req[r1].response.status = "ok"
          /\ IsTx(r1)
          /\ MessageBytes(req[r1].body) = MessageBytes(req'[r2].body)
          /\ Key(req[r1].body) \in cache
          /\ window[Key(req[r1].body)] = req[r1].admitted )
        => /\ req'[r2].pc = "done"
           /\ req'[r2].response = ErrorResponse("duplicate transaction")
           /\ \A i \in 1..Len(req'[r2].log) :
                req'[r2].log[i][1] \notin
                    {"sign", "simulate", "sendAndConfirmRawTransaction"}
    ]_vars

\* C3 witness: request 1 was sponsored, its entry is live, and request 2
\* with the same message was turned away as a duplicate.
C3_Witness ==
    /\ Done(1) /\ req[1].response.status = "ok"
    /\ SameMessage(1, 2)
    /\ Key(req[1].body) \in cache
    /\ window[Key(req[1].body)] = req[1].admitted
    /\ Done(2)
    /\ req[2].response = ErrorResponse("duplicate transaction")
    /\ NoSideEffect(2)

\* C4 as stated: every request whose account key 0 is not the custodial
\* identity is answered 'invalid fee payer' and signs, simulates and submits
\* nothing.
C4_Original ==
    \A r \in Requests :
        (IsTx(r) /\ Done(r) /\ req[r].body.accountKey0 # ENV_SECRET_KEYPAIR)
            => /\ req[r].response = ErrorResponse("invalid fee payer")
               /\ NoSideEffect(r)

\* C4 as amended: a request whose account key 0 is not the custodial identity
\* never signs, simulates or submits, in either wire variant; it is answered
\* 'invalid fee payer' when it passed the duplicate check and 'duplicate
\* transaction' when its digest was locked.
C4_WrongFeePayerRejected ==
    \A r \in Requests :
        (IsTx(r) /\ req[r].body.accountKey0 # ENV_SECRET_KEYPAIR)
            => /\ NoSideEffect(r)
               /\ ~Called(r, "isBlockhashValid")
               /\ Done(r) =>
                    req[r].response =
                        IF Admitted(r) THEN ErrorResponse("invalid fee payer")
                        ELSE ErrorResponse("duplicate transaction")

\* C4 witness: a legacy and a versioned request with a foreign fee payer have
\* both been answered 'invalid fee payer'.
C4_Witness ==
    \E r1, r2 \in Requests :
        /\ req[r1].body.version = "legacy" /\ req[r2].body.version = "v0"
        /\ \A r \in {r1, r2} :
            /\ IsTx(r) /\ Done(r) /\ Admitted(r)
            /\ req[r].body.accountKey0 # ENV_SECRET_KEYPAIR
            /\ req[r].body.numRequiredSignatures > 0
            /\ req[r].response = ErrorResponse("invalid fee payer")

\* C5: a transaction is co-signed by the custodial key only after the
\* instruction policy hook was evaluated on it and passed.
C5_SignedOnlyAfterHook ==
    \A r \in Requests :
        Signed(r) => /\ Has(r, "validateInstructions", "ok")
                     /\ At(r, "validateInstructions") < At(r, "sign")

\* C6: a request submits or answers 'ok' only after the simulation of its
\* co-signed transaction reported success, and a request whose simulation
\* reported an error or failed ends with an error and submits nothing.
C6_SimulationGuardsDispatch ==
    \A r \in Requests :
        /\ (Submitted(r) \/ req[r].response.status = "ok")
              => /\ Has(r, "simulate", "ok")
                 /\ 0 < At(r, "sign")
                 /\ At(r, "sign") < At(r, "simulate")
        /\ (Has(r, "simulate", "err") \/ Has(r, "simulate", "throws"))
              => /\ Done(r)
                 /\ req[r].response.code = 400
                 /\ req[r].response.status = "error"
                 /\ ~Submitted(r)

\* C6 witness: one request was stopped by a simulation that reported an
\* error, another was answered 'ok' after a simulation that succeeded.
C6_Witness ==
    \E r1, r2 \in Requests :
        /\ Has(r1, "simulate", "err") /\ Done(r1)
        /\ req[r1].response.status = "error"
        /\ Has(r2, "simulate", "ok") /\ Done(r2)
        /\ req[r2].response.status = "ok"

\* The calls of a request that signs, simulates and submits, in this order.
SignsSimulatesSubmits(r) ==
    /\ 0 < At(r, "sign")
    /\ At(r, "sign") < At(r, "simulate")
    /\ At(r, "simulate") < At(r, "sendAndConfirmRawTransaction")
    /\ Has(r, "simulate", "ok")
    /\ Has(r, "sendAndConfirmRawTransaction", "confirmed")

\* C7: under returnSignature = none, a transaction with required-signature
\* count 1, the custodial fee payer and a blockhash the ledger reports valid,
\* whose simulation and submission succeed, is signed, simulated and
\* submitted in this order and answered 'ok' with the signature identifier,
\* in both wire variants and whatever the fee payer's slot held.
C7_SingleSignerSponsored ==
    \A r \in Requests :
        ( /\ IsTx(r) /\ Done(r)
          /\ config.returnSignature = "null"
          /\ req[r].body.numRequiredSignatures = 1
          /\ req[r].body.accountKey0 = ENV_SECRET_KEYPAIR
          /\ Has(r, "isBlockhashValid", "valid")
          /\ ~Has(r, "validateInstructions", "throws")
          /\ ~Has(r, "simulate", "err") /\ ~Has(r, "simulate", "throws")
          /\ ~Has(r, "sendAndConfirmRawTransaction", "throws") )
        => /\ SignsSimulatesSubmits(r)
           /\ req[r].response = OkResponse(OctaneSignature)

\* C8: with required-signature count 1, a populated fee payer slot is not
\* rejected with 'invalid fee payer signature' in either variant, and the
\* co-signer overwrites the slot.
C8_PrePopulatedSlotTolerated ==
    \A r \in Requests :
        ( /\ IsTx(r) /\ Done(r)
          /\ req[r].body.numRequiredSignatures = 1
          /\ req[r].body.signatures[1] # "zero" )
        => /\ req[r].response # ErrorResponse("invalid fee payer signature")
           /\ Signed(r) => req[r].signatures[1] = OctaneSignature

\* C9: a transaction with required-signature count above 1 whose secondary
\* slots are mixed is never signed, simulated or submitted, and is answered
\* with an error, in either wire variant.
C9_MixedRejectedBeforeSigning ==
    \A r \in Requests :
        ( /\ IsTx(r)
          /\ req[r].body.numRequiredSignatures > 1
          /\ Mixed(req[r].body) )
        => /\ NoSideEffect(r)
           /\ Done(r) => /\ req[r].response.status = "error"
                         /\ req[r].response.code = 400

\* C9 witness: a legacy and a versioned request with mixed secondary slots
\* reached the signature checks (custodial fee payer, valid blockhash, count
\* within maxSignatures) and were rejected there.
C9_Witness ==
    \E r1, r2 \in Requests :
        /\ req[r1].body.version = "legacy" /\ req[r2].body.version = "v0"
        /\ \A r \in {r1, r2} :
            /\ IsTx(r) /\ Done(r) /\ Mixed(req[r].body)
            /\ req[r].body.numRequiredSignatures <= config.maxSignatures
            /\ req[r].body.signatures[1] = "zero"
            /\ Has(r, "isBlockhashValid", "valid")
            /\ req[r].response.status = "error"
            /\ NoSideEffect(r)

AllSlotsEmpty(tx) == \A i \in 1..Len(tx.signatures) : tx.signatures[i] = "zero"

\* C10: a transaction with required-signature count above 1 whose slots are
\* all empty passes the signature checks (it is not answered 'missing
\* required signature') and goes on to co-signing and simulation.
C10_UnsignedMultiSigProceeds ==
    \A r \in Requests :
        ( /\ IsTx(r) /\ Done(r)
          /\ req[r].body.numRequiredSignatures > 1
          /\ req[r].body.numRequiredSignatures <= config.maxSignatures
          /\ AllSlotsEmpty(req[r].body)
          /\ req[r].body.accountKey0 = ENV_SECRET_KEYPAIR
          /\ Has(r, "isBlockhashValid", "valid")
          /\ ~Has(r, "validateInstructions", "throws") )
        => /\ req[r].response # ErrorResponse("missing required signature")
           /\ Signed(r)
           /\ Simulated(r)

TooManySignatures(r) ==
    /\ IsTx(r)
    /\ req[r].body.numRequiredSignatures > config.maxSignatures
    /\ req[r].body.accountKey0 = ENV_SECRET_KEYPAIR

\* C11 as stated: a transaction whose required-signature count exceeds
\* maxSignatures, with a correct fee payer, is answered 'too many signatures'
\* before any call to the ledger is made.
C11_Original ==
    \A r \in Requests :
        (TooManySignatures(r) /\ Done(r))
            => /\ req[r].response = ErrorResponse("too many signatures")
               /\ ~Called(r, "isBlockhashValid")
               /\ NoSideEffect(r)

\* C11 as amended: such a transaction is never signed, simulated or
\* submitted, and the instruction policy is never asked; the count is tested
\* after the freshness query, so the request is answered 'too many
\* signatures' exactly when it passed the duplicate check and the ledger
\* reported the token valid, and with the error of the duplicate check or of
\* the freshness query otherwise.
C11_TooManyAfterFreshnessQuery ==
    \A r \in Requests :
        TooManySignatures(r)
            => /\ NoSideEffect(r)
               /\ ~Called(r, "validateInstructions")
               /\ Done(r) =>
                    req[r].response =
                        IF ~Admitted(r)
                          THEN ErrorResponse("duplicate transaction")
                        ELSE IF Has(r, "isBlockhashValid", "valid")
                          THEN ErrorResponse("too many signatures")
                        ELSE IF Has(r, "isBlockhashValid", "invalid")
                          THEN ErrorResponse("blockhash not found or expired")
                        ELSE ErrorResponse(RpcError)

\* C11 witness: a legacy and a versioned transaction with 3 required
\* signatures were answered 'too many signatures' under maxSignatures = 2,
\* after the freshness query.
C11_Witness ==
    /\ config.maxSignatures = 2
    /\ \E r1, r2 \in Requests :
        /\ req[r1].body.version = "legacy" /\ req[r2].body.version = "v0"
        /\ \A r \in {r1, r2} :
            /\ TooManySignatures(r) /\ Done(r)
            /\ req[r].body.numRequiredSignatures = 3
            /\ Has(r, "isBlockhashValid", "valid")
            /\ req[r].response = ErrorResponse("too many signatures")

\* C12: under returnSignature = none, a request is answered 'ok' only after
\* its submit-and-confirm call has returned successfully: nothing is answered
\* while the call is pending, and no 'ok' after it failed.
C12_OkOnlyAfterConfirmation ==
    config.returnSignature = "null" =>
        \A r \in Requests :
            /\ req[r].response.status = "ok"
                  => /\ Has(r, "sendAndConfirmRawTransaction", "confirmed")
                     /\ At(r, "sendAndConfirmRawTransaction") = Len(req[r].log)
                     /\ At(r, "simulate") < At(r, "sendAndConfirmRawTransaction")
            /\ req[r].pc = "sendAndConfirmRawTransaction"
                  => req[r].response = NoResponse
            /\ Has(r, "sendAndConfirmRawTransaction", "throws")
                  => req[r].response.status = "error"

\* C12 witness: a request was answered 'ok' after its submission was
\* confirmed, and another was answered an error after its submission failed.
C12_Witness ==
    /\ config.returnSignature = "null"
    /\ \E r1, r2 \in Requests :
        /\ Done(r1) /\ req[r1].response.status = "ok"
        /\ Has(r1, "sendAndConfirmRawTransaction", "confirmed")
        /\ Done(r2) /\ req[r2].response.status = "error"
        /\ Has(r2, "sendAndConfirmRawTransaction", "throws")

\* The number of times request r made the call `name`.
Times(r, name) ==
    Cardinality({ i \in 1..Len(req[r].log) : req[r].log[i][1] = name })
        + (IF req[r].pc = name THEN 1 ELSE 0)

\* C13 as stated: when the submit-and-confirm call fails, the request ends
\* with an error whose message is the stable string 'submission failed'.
C13_Original ==
    \A r \in Requests :
        Has(r, "sendAndConfirmRawTransaction", "throws")
            => /\ Done(r)
               /\ req[r].response = ErrorResponse("submission failed")

\* C13 as amended: when the submit-and-confirm call fails, the request ends
\* with a code 400 error response whose message is the message of the error
\* the call threw, and the submission is not retried.
C13_SubmissionFailureForwarded ==
    \A r \in Requests :
        Has(r, "sendAndConfirmRawTransaction", "throws")
            => /\ Done(r)
               /\ req[r].response = ErrorResponse(RpcError)
               /\ Times(r, "sendAndConfirmRawTransaction") = 1
               /\ At(r, "sendAndConfirmRawTransaction") = Len(req[r].log)

\* C13 witness: a request under returnSignature = none whose submission
\* threw has been answered.
C13_Witness ==
    \E r \in Requests :
        /\ config.returnSignature = "null"
        /\ Has(r, "simulate", "ok")
        /\ Has(r, "sendAndConfirmRawTransaction", "throws")
        /\ Done(r) /\ req[r].response.code = 400

\* C14: when returnSignature is allowAll or the scored challenge, no request
\* ever calls submit-and-confirm, and a request that was signed and simulated
\* and that the anti-abuse check lets through is answered 'ok' with the fee
\* payer's signature identifier.
C14_ReturnedNotSubmitted ==
    config.returnSignature # "null" =>
        \A r \in Requests :
            /\ ~Submitted(r)
            /\ Has(r, "simulate", "ok")
                  => \/ req[r].pc = "isReturnedSignatureAllowed"
                     \/ Has(r, "isReturnedSignatureAllowed", "allowed")
                     \/ Has(r, "isReturnedSignatureAllowed", "denied")
            /\ Has(r, "isReturnedSignatureAllowed", "allowed")
                  => /\ Done(r)
                     /\ Signed(r) /\ Has(r, "simulate", "ok")
                     /\ req[r].response = OkResponse(OctaneSignature)

\* C14 witness: under allowAll a request was signed, simulated and answered
\* 'ok' without a submission.
C14_Witness ==
    \E r \in Requests :
        /\ config.returnSignature = "allowAll"
        /\ Done(r) /\ req[r].response = OkResponse(OctaneSignature)
        /\ Has(r, "simulate", "ok")
        /\ ~Submitted(r)

\* C15: under the scored challenge, a request whose anti-abuse check fails is
\* answered code 400, status 'error', message 'anti-spam check failed', with
\* no signature identifier and no submission; a request whose check succeeds
\* is answered as under allowAll: 'ok' with the signature identifier.
C15_ScoredChallenge ==
    config.returnSignature = "reCaptcha" =>
        \A r \in Requests :
            /\ Has(r, "isReturnedSignatureAllowed", "denied")
                  => /\ Done(r)
                     /\ req[r].response = ErrorResponse("anti-spam check failed")
                     /\ req[r].response.code = 400
                     /\ req[r].response.text # SignatureId(req[r].signatures)
                     /\ ~Submitted(r)
            /\ Has(r, "isReturnedSignatureAllowed", "allowed")
                  => /\ Done(r)
                     /\ req[r].response = OkResponse(SignatureId(req[r].signatures))
                     /\ ~Submitted(r)

\* C15 witness: under the scored challenge one request was denied and
\* another let through.
C15_Witness ==
    /\ config.returnSignature = "reCaptcha"
    /\ \E r1, r2 \in Requests :
        /\ Has(r1, "isReturnedSignatureAllowed", "denied") /\ Done(r1)
        /\ Has(r2, "isReturnedSignatureAllowed", "allowed") /\ Done(r2)

\* C16: every response the handler sends is code 200 with status 'ok' and the
\* signature, or code 400 with status 'error' and a message; the code is 200
\* exactly when the status is 'ok'; a request that ended has sent one.
C16_TwoResponseShapes ==
    \A r \in Requests :
        /\ req[r].response # NoResponse
              => /\ \/ /\ req[r].response.code = 200
                       /\ req[r].response.status = "ok"
                       /\ req[r].response.text = SignatureId(req[r].signatures)
                       /\ req[r].response.text = OctaneSignature
                    \/ /\ req[r].response.code = 400
                       /\ req[r].response.status = "error"
                       /\ req[r].response.text # OctaneSignature
                 /\ req[r].response.code = 200 <=> req[r].response.status = "ok"
                 /\ Done(r)
        /\ Done(r) => req[r].response # NoResponse

\* C16 witness: one request was answered 'ok' and another 'error'.
C16_Witness ==
    \E r1, r2 \in Requests :
        /\ Done(r1) /\ req[r1].response.code = 200
        /\ req[r1].response.status = "ok"
        /\ Done(r2) /\ req[r2].response.code = 400
        /\ req[r2].response.status = "error"

\* C17: every request whose body is malformed (no string transaction, a
\* string that is not base58, bytes that do not decode) is answered code 400
\* with status 'error'; none leaves the handler by an unhandled exception or
\* without a response.
C17_MalformedRejected ==
    \A r \in Requests :
        (req[r].pc # "idle" /\ req[r].body.kind # "tx")
            => /\ Done(r)
               /\ req[r].response.code = 400
               /\ req[r].response.status = "error"

\* C18: two payloads with the same message (version, header, account keys)
\* and different signature slots have the same lock key, and the second one,
\* received while the entry the first one wrote is live, is answered
\* 'duplicate transaction'.
C18_KeyIgnoresSignatures ==
    [][\A r1, r2 \in Requests :
        ( /\ r1 # r2
          /\ req[r2].pc = "idle" /\ req'[r2].pc # "idle"
          /\ req'[r2].body.kind = "tx"
          /\ IsTx(r1)
          /\ req[r1].body.version = req'[r2].body.version
          /\ req[r1].body.numRequiredSignatures
                = req'[r2].body.numRequiredSignatures
          /\ req[r1].body.accountKey0 = req'[r2].body.accountKey0
          /\ req[r1].body.signatures # req'[r2].body.signatures
          /\ Has(r1, "cache.set", "done")
          /\ Key(req[r1].body) \in cache
          /\ window[Key(req[r1].body)] = req[r1].admitted )
        => /\ Key(req[r1].body) = Key(req'[r2].body)
           /\ req'[r2].pc = "done"
           /\ req'[r2].response = ErrorResponse("duplicate transaction")
    ]_vars

\* C18 witness: request 2 carried the message of request 1 with other
\* signature slots while the entry of request 1 was live, and was answered
\* 'duplicate transaction'.
C18_Witness ==
    /\ IsTx(1) /\ IsTx(2)
    /\ req[1].body.version = req[2].body.version
    /\ req[1].body.numRequiredSignatures = req[2].body.numRequiredSignatures
    /\ req[1].body.accountKey0 = req[2].body.accountKey0
    /\ req[1].body.signatures # req[2].body.signatures
    /\ Has(1, "cache.set", "done")
    /\ Key(req[1].body) \in cache
    /\ window[Key(req[1].body)] = req[1].admitted
    /\ Done(2)
    /\ req[2].response = ErrorResponse("duplicate transaction")

\* C19: a key enters the cache only by the cache.set of a request that read
\* this key as free itself; a transaction received when no live entry holds
\* its key, the entry of an earlier window having expired, passes the
\* duplicate check in the current window and goes on to the later stages; no
\* request that passed the check is answered 'duplicate transaction'.
C19_EntryEndsWithItsWindow ==
    [][ /\ \A k \in Keys :
            (k \notin cache /\ k \in cache')
                => \E r \in Requests :
                    /\ Admitted(r) /\ req[r].pc = "cache.get"
                    /\ Key(req[r].body) = k
                    /\ req'[r].log = req[r].log \o <<<<"cache.set", "done">>>>
        /\ \A r \in Requests :
            ( /\ req[r].pc = "idle" /\ req'[r].pc # "idle"
              /\ req'[r].body.kind = "tx"
              /\ Key(req'[r].body) \notin cache )
            => /\ req'[r].pc = "cache.get"
               /\ req'[r].log = <<<<"cache.get", "free">>>>
               /\ req'[r].admitted = window[Key(req'[r].body)]
               /\ req'[r].response = NoResponse
        /\ \A r \in Requests :
            (Admitted(r) /\ req'[r].response # req[r].response)
                => req'[r].response # ErrorResponse("duplicate transaction")
      ]_vars

\* C19 witness: request 1 wrote the entry of its message in window 1, the
\* entry expired, and request 2 with the same message passed the duplicate
\* check in a later window and was carried to an 'ok' response.
C19_Witness ==
    /\ SameMessage(1, 2)
    /\ Has(1, "cache.set", "done") /\ req[1].admitted = 1
    /\ Admitted(2) /\ req[2].admitted > 1
    /\ Has(2, "cache.set", "done")
    /\ Signed(2) /\ Has(2, "simulate", "ok")
    /\ Done(2) /\ req[2].response.status = "ok"

\* The stage of the admission validator an error message comes from, 0 for a
\* message of no stage.
StageOf(message) ==
    IF message = "invalid fee payer" THEN 1
    ELSE IF message \in {"missing recent blockhash",
                         "blockhash not found or expired"} THEN 2
    ELSE IF message \in {"no signatures", "too many signatures"} THEN 3
    ELSE IF message = "invalid fee payer signature" THEN 4
    ELSE IF message \in {"missing required signature", "missing signature"}
        THEN 5
    ELSE IF message = "program not allowed" THEN 6
    ELSE 0

\* The earliest stage the transaction of r violates, 0 when it violates none:
\* account key 0 is not the custodial identity; the ledger reported the
\* freshness token invalid; the count is below 1 or above maxSignatures; the
\* fee payer slot is populated and the count is above 1; the secondary slots
\* are mixed; the instruction policy rejected.
EarliestViolated(r) ==
    LET tx == req[r].body
        n == tx.numRequiredSignatures
    IN  IF tx.accountKey0 # ENV_SECRET_KEYPAIR THEN 1
        ELSE IF Has(r, "isBlockhashValid", "invalid") THEN 2
        ELSE IF n < 1 \/ n > config.maxSignatures THEN 3
        ELSE IF n > 1 /\ tx.signatures[1] # "zero" THEN 4
        ELSE IF Mixed(tx) THEN 5
        ELSE IF Has(r, "validateInstructions", "throws") THEN 6
        ELSE 0

\* C20: a request that passed the duplicate check and whose freshness query
\* did not throw is answered, when its transaction violates a stage, with the
\* error of the earliest stage it violates, and with no error of any stage
\* when it violates none; the freshness query is made only when stage 1
\* holds and the instruction policy is asked only when stages 1 to 5 hold.
C20_EarliestViolatedStage ==
    \A r \in Requests :
        (IsTx(r) /\ Admitted(r) /\ ~Has(r, "isBlockhashValid", "throws"))
            => /\ Done(r)
                  => StageOf(req[r].response.text) = EarliestViolated(r)
               /\ Called(r, "isBlockhashValid")
                  => req[r].body.accountKey0 = ENV_SECRET_KEYPAIR
               /\ Called(r, "validateInstructions")
                  => EarliestViolated(r) \in {0, 6}

\* r1 carries a legacy and r2 a versioned transaction with the same
\* normalized view: fee payer, required-signature count, state of each slot.
SameView(r1, r2) ==
    /\ IsTx(r1) /\ IsTx(r2)
    /\ req[r1].body.version = "legacy" /\ req[r2].body.version = "v0"
    /\ req[r1].body.accountKey0 = req[r2].body.accountKey0
    /\ req[r1].body.numRequiredSignatures = req[r2].body.numRequiredSignatures
    /\ req[r1].body.signatures = req[r2].body.signatures

\* Every call both requests made was answered alike.
SameAnswers(r1, r2) ==
    \A i \in 1..Len(req[r1].log), j \in 1..Len(req[r2].log) :
        req[r1].log[i][1] = req[r2].log[j][1]
            => req[r1].log[i][2] = req[r2].log[j][2]

\* C21: a legacy and a versioned transaction with the same normalized view,
\* whose calls were answered alike, end with the same response and the same
\* side effects (signed, simulated, submitted).
C21_VariantIndependent ==
    \A r1, r2 \in Requests :
        (SameView(r1, r2) /\ SameAnswers(r1, r2) /\ Done(r1) /\ Done(r2))
            => /\ req[r1].response = req[r2].response
               /\ Signed(r1) <=> Signed(r2)
               /\ Simulated(r1) <=> Simulated(r2)
               /\ Submitted(r1) <=> Submitted(r2)

\* r passed the duplicate check and stages 1 and 2: its account key 0 is the
\* custodial identity and the ledger reported its freshness token valid.
PassedFreshness(r) ==
    /\ IsTx(r) /\ Admitted(r)
    /\ req[r].body.accountKey0 = ENV_SECRET_KEYPAIR
    /\ ~Has(r, "isBlockhashValid", "invalid")
    /\ ~Has(r, "isBlockhashValid", "throws")

\* C22: a transaction with a required-signature count below 1 that passed the
\* duplicate check and the stages before the count is answered 'no
\* signatures' and is never signed, in both variants.
C22_NoSignaturesRejected ==
    \A r \in Requests :
        (PassedFreshness(r) /\ req[r].body.numRequiredSignatures < 1 /\ Done(r))
            => /\ req[r].response = ErrorResponse("no signatures")
               /\ ~Signed(r)

\* r passed the stages before the fee payer's slot is looked at: the
\* duplicate check, stages 1 and 2 and the count bound.
PassedCount(r) ==
    /\ PassedFreshness(r)
    /\ Has(r, "isBlockhashValid", "valid")
    /\ req[r].body.numRequiredSignatures >= 1
    /\ req[r].body.numRequiredSignatures <= config.maxSignatures

\* C23: a transaction with a required-signature count above 1 and a populated
\* fee payer slot that passed the earlier stages is answered 'invalid fee
\* payer signature', the instruction policy is not asked and the transaction
\* is never signed, in both variants.
C23_ForgedFeePayerSlotRejected ==
    \A r \in Requests :
        ( /\ PassedCount(r)
          /\ req[r].body.numRequiredSignatures > 1
          /\ req[r].body.signatures[1] # "zero" )
        => /\ Done(r)
           /\ req[r].response = ErrorResponse("invalid fee payer signature")
           /\ ~Called(r, "validateInstructions")
           /\ NoSideEffect(r)

\* C23 witness: a legacy and a versioned transaction with two slots and a
\* populated fee payer slot were both rejected after the freshness query.
C23_Witness ==
    \E r1, r2 \in Requests :
        /\ SameView(r1, r2)
        /\ PassedCount(r1) /\ PassedCount(r2)
        /\ req[r1].body.numRequiredSignatures > 1
        /\ req[r1].body.signatures[1] # "zero"
        /\ req[r1].response = ErrorResponse("invalid fee payer signature")
        /\ req[r2].response = ErrorResponse("invalid fee payer signature")

\* C24: a transaction with mixed secondary slots and an empty fee payer slot
\* that passed the earlier stages is answered 'missing required signature',
\* in both variants.
C24_MixedMessageStable ==
    \A r \in Requests :
        ( /\ PassedCount(r) /\ Done(r)
          /\ req[r].body.signatures[1] = "zero"
          /\ Mixed(req[r].body) )
        => req[r].response = ErrorResponse("missing required signature")

\* C25: within one request no call is made twice (the duplicate check, the
\* lock, the freshness query, the signing, the simulation, the anti-abuse
\* check and the submission each appear at most once in its history, which
\* only grows), a call that throws is the last one and ends the request with
\* an error, and once a response is sent the request does nothing more, so
\* that at most one response is sent.
C25_StagesRunOnce ==
    [][\A r \in Requests :
        /\ \A i, j \in 1..Len(req'[r].log) :
              i # j => req'[r].log[i][1] # req'[r].log[j][1]
        /\ Len(req'[r].log) >= Len(req[r].log)
        /\ SubSeq(req'[r].log, 1, Len(req[r].log)) = req[r].log
        /\ \A i \in 1..Len(req'[r].log) :
              req'[r].log[i][2] = "throws"
                  => /\ i = Len(req'[r].log)
                     /\ req'[r].pc = "done"
                     /\ req'[r].response.status = "error"
        /\ req[r].response # NoResponse => req'[r] = req[r]
        /\ req[r].pc = "done" => req'[r] = req[r]
    ]_vars

\* C25 witness: a request went once through the duplicate check, the lock,
\* the freshness query, the signing, the simulation and the submission, the
\* submission threw, and the request ended with one error response.
C25_Witness ==
    \E r \in Requests :
        /\ Done(r) /\ req[r].response = ErrorResponse(RpcError)
        /\ Times(r, "cache.get") = 1 /\ Times(r, "cache.set") = 1
        /\ Times(r, "isBlockhashValid") = 1 /\ Times(r, "sign") = 1
        /\ Times(r, "simulate") = 1
        /\ Times(r, "sendAndConfirmRawTransaction") = 1
        /\ Has(r, "sendAndConfirmRawTransaction", "throws")

\* C26: when every awaited call eventually returns or throws, every request
\* the handler received eventually sends a response with status 'ok' or
\* 'error'.
C26_EveryRequestAnswered ==
    \A r \in Requests :
        (req[r].pc # "idle") ~> (req[r].response.status \in {"ok", "error"})

\* The entry of a request that passed the duplicate check and the lock is
\* live as long as the window it was admitted in lasts.
LockHeld(r) ==
    ( /\ IsTx(r) /\ Admitted(r)
      /\ req[r].pc # "cache.get"
      /\ window[Key(req[r].body)] = req[r].admitted )
    => Key(req[r].body) \in cache

\* C27: no step of a request removes an entry from the cache (only the expiry
\* does); the entry of a request that passed the duplicate check stays live
\* through the window it was admitted in, however the request ends; and a
\* request with the same message received in that window after the first one
\* ended with an error is answered 'duplicate transaction'.
C27_LockNeverReleased ==
    [][ /\ \A k \in Keys : (k \in cache /\ k \notin cache') => req' = req
        /\ \A r \in Requests : LockHeld(r)'
        /\ \A r1, r2 \in Requests :
            ( /\ r1 # r2
              /\ req[r2].pc = "idle" /\ req'[r2].pc # "idle"
              /\ req'[r2].body.kind = "tx"
              /\ IsTx(r1) /\ Admitted(r1) /\ Done(r1)
              /\ req[r1].response.status = "error"
              /\ MessageBytes(req[r1].body) = MessageBytes(req'[r2].body)
              /\ window[Key(req[r1].body)] = req[r1].admitted )
            => /\ req'[r2].pc = "done"
               /\ req'[r2].response = ErrorResponse("duplicate transaction")
               /\ req'[r2].log = <<<<"cache.get", "locked">>>>
      ]_vars

\* C27 witness: request 1 passed the duplicate check and ended with the error
\* of a later stage, and request 2 with the same message, received in the
\* same window, was answered 'duplicate transaction'.
C27_Witness ==
    /\ Admitted(1) /\ Done(1) /\ req[1].response.status = "error"
    /\ req[1].response # ErrorResponse("duplicate transaction")
    /\ SameMessage(1, 2)
    /\ window[Key(req[1].body)] = req[1].admitted
    /\ Key(req[1].body) \in cache
    /\ Done(2) /\ req[2].log = <<<<"cache.get", "locked">>>>
    /\ req[2].response = ErrorResponse("duplicate transaction")

\* C28: a request rejected because its body holds no string transaction or
\* bytes that do not deserialize is answered at once, leaves the cache as it
\* was and makes no call: no cache read or write, no freshness query, no
\* signing, no simulation, no submission.
C28_EarlyRejectionHasNoEffect ==
    [][\A r \in Requests :
        ( /\ req[r].pc = "idle" /\ req'[r].pc # "idle"
          /\ req'[r].body.kind \in {"notString", "undecodable"} )
        => /\ cache' = cache /\ window' = window
           /\ req'[r].pc = "done"
           /\ req'[r].log = <<>>
           /\ req'[r].response.code = 400
           /\ req'[r].response.status = "error"
    ]_vars

\* C28 witness: while the cache held the entry of another request, a request
\* whose bytes do not deserialize was answered 400 without any call.
C28_Witness ==
    \E r1, r2 \in Requests :
        /\ r1 # r2
        /\ IsTx(r1) /\ cache = {Key(req[r1].body)}
        /\ req[r2].body.kind = "undecodable"
        /\ Done(r2) /\ req[r2].log = <<>>
        /\ req[r2].response.code = 400

\* C29: a request of the health endpoint has sent no response while it waits
\* for the block-height query and exactly one once the query has answered:
\* code 200, status 'healthy', rpc.connected true and the height when the
\* query returned; code 503, status 'unhealthy', rpc.connected false and the
\* error text when it threw; either one carries the fee payer's public key
\* and the timestamp the handler took.
C29_HealthOneResponse ==
    \A h \in HealthRequests :
        /\ health[h].pc # "done" => health[h].responses = <<>>
        /\ health[h].pc = "done" =>
            /\ Len(health[h].responses) = 1
            /\ LET sent == health[h].responses[1]
                   answer == health[h].answer
               IN  /\ sent.feePayer = ENV_FEE_PAYER
                   /\ sent.timestamp = health[h].timestamp
                   /\ sent.timestamp \in Timestamps
                   /\ answer.kind \in {"height", "throws"}
                   /\ answer.kind = "height" =>
                        /\ sent.code = 200 /\ sent.status = "healthy"
                        /\ sent.rpc =
                            [connected |-> TRUE, blockheight |-> answer.value]
                   /\ answer.kind = "throws" =>
                        /\ sent.code = 503 /\ sent.status = "unhealthy"
                        /\ sent.rpc.connected = FALSE
                        /\ sent.rpc.error \in {RpcError, "Unknown error"}

\* C29 witness: one request was answered 'healthy' and another, whose query
\* threw, 'unhealthy'.
C29_Witness ==
    \E h1, h2 \in HealthRequests :
        /\ health[h1].pc = "done" /\ health[h1].answer.kind = "height"
        /\ health[h1].responses[1].code = 200
        /\ health[h2].pc = "done" /\ health[h2].answer.kind = "throws"
        /\ health[h2].responses[1].code = 503
====
